---- MODULE Spec2Model ----
(***************************************************************************)
(* Hash map ADT in two variants: open addressing with quadratic probing    *)
(* (src/hash-map-oa.py) and separate chaining (src/hash-map-sc.py).        *)
(* A map object is a record of its fields; every method is an operator     *)
(* from the object before the call to the object after it, computed as the *)
(* method's code computes it.                                              *)
(***************************************************************************)
EXTENDS Integers, Sequences, FiniteSets, TLC

VARIABLES variant, oa, sc, last

vars == <<variant, oa, sc, last>>

(***************************************************************************)
(* Bounds of the model.                                                    *)
(***************************************************************************)
NumKeys == 2
MaxNegCapacity == 4
MaxInitCapacity == 4
MaxResize == 3
MaxCapacity == 7
NumFreshKeys == 7
\* find_mode's input: sequences of up to MaxModeLen values from 1..NumModeValues.
MaxModeLen == 6
NumModeValues == 3

Keys == 1..NumKeys
Values == {"v1", "v2"}
FreshValues == {"v1"}
InitCapacities == (0 - MaxNegCapacity)..MaxInitCapacity
ResizeArgs == (0 - 1)..MaxResize
FreshKeys == 1..NumFreshKeys
ModeValues == 1..NumModeValues
ModeInputs == UNION {[1..n -> ModeValues] : n \in 0..MaxModeLen}

(***************************************************************************)
(* Python arithmetic.                                                      *)
(***************************************************************************)
\* a % b of Python: the result has the sign of b.
PyMod(a, b) == IF b > 0 THEN a % b ELSE 0 - ((0 - a) % (0 - b))

\* size / capacity >= num / den of Python floats, for den > 0 and
\* capacity # 0, as the integer comparison it amounts to.
LoadAtLeast(size, capacity, num, den) ==
    IF capacity > 0 THEN den * size >= num * capacity
                    ELSE den * size <= num * capacity

(***************************************************************************)
(* Primality engine (the same code in both files).                         *)
(***************************************************************************)
RECURSIVE is_prime_loop(_, _)
is_prime_loop(capacity, factor) ==
    IF factor * factor <= capacity
    THEN IF capacity % factor = 0 THEN FALSE
         ELSE is_prime_loop(capacity, factor + 2)
    ELSE TRUE

\* _is_prime without its test for 1.
is_prime_no_one(capacity) ==
    IF capacity = 2 \/ capacity = 3 THEN TRUE
    ELSE IF capacity % 2 = 0 THEN FALSE
    ELSE is_prime_loop(capacity, 3)

_is_prime(capacity) ==
    IF capacity = 2 \/ capacity = 3 THEN TRUE
    ELSE IF capacity = 1 \/ capacity % 2 = 0 THEN FALSE
    ELSE is_prime_loop(capacity, 3)

RECURSIVE next_prime_loop(_)
next_prime_loop(capacity) ==
    IF ~_is_prime(capacity) THEN next_prime_loop(capacity + 2) ELSE capacity

_next_prime(capacity) ==
    next_prime_loop(IF capacity % 2 = 0 THEN capacity + 1 ELSE capacity)

(***************************************************************************)
(* The injected hash function: any function from keys to non-negative      *)
(* integers.  One spreads the keys, one makes every key collide.           *)
(***************************************************************************)
AllKeys == 1..(IF NumKeys > NumFreshKeys THEN NumKeys ELSE NumFreshKeys)
HashFunctions == {[k \in AllKeys |-> k], [k \in AllKeys |-> 4]}

(***************************************************************************)
(* Collaborators: HashEntry and the bounds-checked DynamicArray.           *)
(***************************************************************************)
None == [is_none |-> TRUE, key |-> 0, value |-> "", is_tombstone |-> FALSE]

HashEntry(key, value) ==
    [is_none |-> FALSE, key |-> key, value |-> value, is_tombstone |-> FALSE]

\* A DynamicArray of n slots, each holding x, indexed from 0.
DynamicArray(n, x) == [i \in 0..(n - 1) |-> x]

\* DynamicArray.length()
length(da) == Cardinality(DOMAIN da)

\* An index the DynamicArray accepts; any other raises DynamicArrayException.
InBounds(da, index) == index >= 0 /\ index < length(da)

(***************************************************************************)
(* Open-addressing map.                                                    *)
(***************************************************************************)
NoIndex == 0 - 1

oa_init(capacity, function) ==
    LET c == _next_prime(capacity)
    IN  [buckets |-> DynamicArray(c, None), capacity |-> c,
         hash_function |-> function, size |-> 0, index |-> NoIndex]

oa_get_size(m) == m.size

oa_get_capacity(m) == m.capacity

\* The load factor measured as if the entry had been written already.
oa_table_load_after_write(m) == LoadAtLeast(m.size + 1, m.capacity, 1, 2)

\* The load factor tested with > in place of >=.
oa_table_load_above_half(m) ==
    LoadAtLeast(m.size, m.capacity, 1, 2) /\ 2 * m.size # m.capacity

oa_table_load_at_least_half(m) == LoadAtLeast(m.size, m.capacity, 1, 2)

\* Only the slots that are None counted as empty.
oa_empty_buckets_none_only(m) ==
    Cardinality({index \in 0..(m.capacity - 1) : m.buckets[index].is_none})

oa_empty_buckets(m) ==
    Cardinality({index \in 0..(m.capacity - 1) :
                    m.buckets[index].is_none \/ m.buckets[index].is_tombstone})

oa_clear(m) ==
    [m EXCEPT !.buckets = [index \in DOMAIN m.buckets |->
                              IF index < m.capacity THEN None ELSE @[index]],
              !.size = 0]

\* __iter__: the cursor goes to the first slot that is not None.
RECURSIVE iter_skip(_, _)
iter_skip(m, index) ==
    IF index < m.capacity /\ m.buckets[index].is_none
    THEN iter_skip(m, index + 1) ELSE index

oa_iter(m) == [m EXCEPT !.index = iter_skip(m, 0)]

\* The skipping loop of __next__ passing over None only, as __iter__ does.
RECURSIVE next_skip_none_only(_, _)
next_skip_none_only(m, index) ==
    IF index < m.capacity /\ m.buckets[index].is_none
    THEN next_skip_none_only(m, index + 1) ELSE index

\* __next__: skip None and tombstones, then read the slot under the cursor.
RECURSIVE next_skip(_, _)
next_skip(m, index) ==
    IF index < m.capacity
       /\ (m.buckets[index].is_none \/ m.buckets[index].is_tombstone)
    THEN next_skip(m, index + 1) ELSE index

\* The result of __next__: stop is StopIteration, else entry is returned.
oa_next(m) ==
    LET index == next_skip(m, m.index)
    IN  IF InBounds(m.buckets, index)
        THEN [stop |-> FALSE, entry |-> m.buckets[index],
              map |-> [m EXCEPT !.index = index + 1]]
        ELSE [stop |-> TRUE, entry |-> None,
              map |-> [m EXCEPT !.index = index]]

\* __next__ called until it raises StopIteration: slots is the sequence of
\* the slots whose entries were yielded, map the object afterwards.
RECURSIVE next_to_exhaustion(_, _)
next_to_exhaustion(m, slots) ==
    LET r == oa_next(m)
    IN  IF r.stop THEN [map |-> r.map, slots |-> slots]
        ELSE next_to_exhaustion(r.map, Append(slots, r.map.index - 1))

\* for element in self: append (element.key, element.value)
RECURSIVE for_element_in_self(_, _)
for_element_in_self(m, key_value_da) ==
    LET r == oa_next(m)
    IN  IF r.stop THEN [map |-> r.map, da |-> key_value_da]
        ELSE for_element_in_self(r.map,
                 Append(key_value_da, <<r.entry.key, r.entry.value>>))

\* get_keys_and_values iterating with a cursor of its own: the map's cursor
\* stays where it was.
oa_get_keys_and_values_own_cursor(m) ==
    [map |-> m, da |-> for_element_in_self(oa_iter(m), <<>>).da]

\* get_keys_and_values: da is the returned array, map the object afterwards
\* (the iteration moves the cursor the map carries).
oa_get_keys_and_values(m) == for_element_in_self(oa_iter(m), <<>>)

RECURSIVE oa_put(_, _, _)
RECURSIVE oa_resize_table(_, _)
RECURSIVE oa_put_probe(_, _, _, _, _)
RECURSIVE oa_put_all(_, _, _)

\* The probe loop of put without its test for a tombstone.
RECURSIVE oa_put_probe_no_tombstone(_, _, _, _, _)
oa_put_probe_no_tombstone(m, key, value, initial_index, probe) ==
    IF probe < m.capacity
    THEN LET index == PyMod(initial_index + probe * probe, m.capacity)
         IN  IF m.buckets[index].is_none
             THEN [m EXCEPT !.buckets[index] = HashEntry(key, value),
                            !.size = @ + 1]
             ELSE IF m.buckets[index].key = key
             THEN [m EXCEPT !.buckets[index].value = value]
             ELSE oa_put_probe_no_tombstone(m, key, value, initial_index,
                                            probe + 1)
    ELSE m

\* The probe loop of put.
oa_put_probe(m, key, value, initial_index, probe) ==
    IF probe < m.capacity
    THEN LET index == PyMod(initial_index + probe * probe, m.capacity)
         IN  IF m.buckets[index].is_none \/ m.buckets[index].is_tombstone
             THEN [m EXCEPT !.buckets[index] = HashEntry(key, value),
                            !.size = @ + 1]
             ELSE IF m.buckets[index].key = key
             THEN [m EXCEPT !.buckets[index].value = value]
             ELSE oa_put_probe(m, key, value, initial_index, probe + 1)
    ELSE m

\* put growing the table to the next prime after its capacity, not doubled.
oa_put_not_doubled(m, key, value) ==
    LET m1 == IF oa_table_load_at_least_half(m)
              THEN oa_resize_table(m, _next_prime(m.capacity))
              ELSE m
    IN  oa_put_probe(m1, key, value,
                     PyMod(m1.hash_function[key], m1.capacity), 0)

oa_put(m, key, value) ==
    LET m1 == IF oa_table_load_at_least_half(m)
              THEN oa_resize_table(m, _next_prime(m.capacity * 2))
              ELSE m
    IN  oa_put_probe(m1, key, value,
                     PyMod(m1.hash_function[key], m1.capacity), 0)

\* for pair in range(key_value_da.length()): self.put(key, value)
oa_put_all(m, key_value_da, pair) ==
    IF pair <= Len(key_value_da)
    THEN oa_put_all(oa_put(m, key_value_da[pair][1], key_value_da[pair][2]),
                    key_value_da, pair + 1)
    ELSE m

\* resize_table rejecting only a capacity below 1, as the chaining map does.
oa_resize_table_below_one(m, new_capacity) ==
    IF new_capacity < 1 THEN m
    ELSE LET nc == IF ~_is_prime(new_capacity) THEN _next_prime(new_capacity)
                   ELSE new_capacity
             kv == oa_get_keys_and_values(m)
             cleared == oa_clear(kv.map)
             fresh == [cleared EXCEPT !.buckets = DynamicArray(nc, None),
                                      !.capacity = nc]
         IN  oa_put_all(fresh, kv.da, 1)

oa_resize_table(m, new_capacity) ==
    IF new_capacity < m.size THEN m
    ELSE LET nc == IF ~_is_prime(new_capacity) THEN _next_prime(new_capacity)
                   ELSE new_capacity
             kv == oa_get_keys_and_values(m)
             cleared == oa_clear(kv.map)
             fresh == [cleared EXCEPT !.buckets = DynamicArray(nc, None),
                                      !.capacity = nc]
         IN  oa_put_all(fresh, kv.da, 1)

NotFound == "None"

\* The number of slots the search loop of get, contains_key and remove reads
\* before it returns.
RECURSIVE oa_probes(_, _, _, _)
oa_probes(m, key, initial_index, probe) ==
    IF probe < m.capacity
    THEN LET index == PyMod(initial_index + probe * probe, m.capacity)
         IN  IF ~m.buckets[index].is_none
                /\ (~m.buckets[index].is_tombstone /\ m.buckets[index].key = key)
             THEN 1
             ELSE 1 + oa_probes(m, key, initial_index, probe + 1)
    ELSE 0

\* The probe loop of get without its test for a tombstone.
RECURSIVE oa_get_probe_any_entry(_, _, _, _)
oa_get_probe_any_entry(m, key, initial_index, probe) ==
    IF probe < m.capacity
    THEN LET index == PyMod(initial_index + probe * probe, m.capacity)
         IN  IF ~m.buckets[index].is_none /\ m.buckets[index].key = key
             THEN m.buckets[index].value
             ELSE oa_get_probe_any_entry(m, key, initial_index, probe + 1)
    ELSE NotFound

\* The probe loop of get.
RECURSIVE oa_get_probe(_, _, _, _)
oa_get_probe(m, key, initial_index, probe) ==
    IF probe < m.capacity
    THEN LET index == PyMod(initial_index + probe * probe, m.capacity)
         IN  IF ~m.buckets[index].is_none
                /\ (~m.buckets[index].is_tombstone /\ m.buckets[index].key = key)
             THEN m.buckets[index].value
             ELSE oa_get_probe(m, key, initial_index, probe + 1)
    ELSE NotFound

oa_get(m, key) ==
    oa_get_probe(m, key, PyMod(m.hash_function[key], m.capacity), 0)

\* The probe loop of contains_key.
RECURSIVE oa_contains_key_probe(_, _, _, _)
oa_contains_key_probe(m, key, initial_index, probe) ==
    IF probe < m.capacity
    THEN LET index == PyMod(initial_index + probe * probe, m.capacity)
         IN  IF ~m.buckets[index].is_none
                /\ (m.buckets[index].key = key /\ ~m.buckets[index].is_tombstone)
             THEN TRUE
             ELSE oa_contains_key_probe(m, key, initial_index, probe + 1)
    ELSE FALSE

oa_contains_key(m, key) ==
    oa_contains_key_probe(m, key, PyMod(m.hash_function[key], m.capacity), 0)

\* The probe loop of remove.
RECURSIVE oa_remove_probe(_, _, _, _)
oa_remove_probe(m, key, initial_index, probe) ==
    IF probe < m.capacity
    THEN LET index == PyMod(initial_index + probe * probe, m.capacity)
         IN  IF ~m.buckets[index].is_none
                /\ (m.buckets[index].key = key /\ ~m.buckets[index].is_tombstone)
             THEN [m EXCEPT !.buckets[index].is_tombstone = TRUE,
                            !.size = @ - 1]
             ELSE oa_remove_probe(m, key, initial_index, probe + 1)
    ELSE m

oa_remove(m, key) ==
    oa_remove_probe(m, key, PyMod(m.hash_function[key], m.capacity), 0)

(***************************************************************************)
(* Collaborator: the singly linked list of a chain, as the sequence of its *)
(* nodes from head to tail.                                                *)
(***************************************************************************)
LinkedList == <<>>

SLNode(key, value) == [key |-> key, value |-> value]

\* LinkedList.contains(key): the position of the first node holding key,
\* 0 when there is none (the code gets the node or None).
ll_contains(list, key) ==
    IF \E i \in 1..Len(list) : list[i].key = key
    THEN CHOOSE i \in 1..Len(list) :
            list[i].key = key /\ \A j \in 1..(i - 1) : list[j].key # key
    ELSE 0

\* LinkedList.insert(key, value): a new node at the chain's end.
ll_insert(list, key, value) == Append(list, SLNode(key, value))

\* LinkedList.remove(key): unlink the first node holding key.
ll_remove(list, key) ==
    LET i == ll_contains(list, key)
    IN  IF i = 0 THEN list
        ELSE SubSeq(list, 1, i - 1) \o SubSeq(list, i + 1, Len(list))

(***************************************************************************)
(* Chaining map.                                                           *)
(***************************************************************************)
sc_init(capacity, function) ==
    LET c == _next_prime(capacity)
    IN  [buckets |-> DynamicArray(c, LinkedList), capacity |-> c,
         hash_function |-> function, size |-> 0]

sc_get_size(m) == m.size

sc_get_capacity(m) == m.capacity

sc_table_load_at_least_one(m) == LoadAtLeast(m.size, m.capacity, 1, 1)

sc_empty_buckets(m) ==
    Cardinality({bucket \in 0..(m.capacity - 1) : Len(m.buckets[bucket]) = 0})

sc_clear(m) ==
    [m EXCEPT !.buckets = [bucket \in DOMAIN m.buckets |->
                              IF bucket < m.capacity THEN LinkedList
                              ELSE @[bucket]],
              !.size = 0]

\* for bucket in range(capacity): for node in buckets[bucket]: append
RECURSIVE sc_keys_and_values_from(_, _)
sc_keys_and_values_from(m, bucket) ==
    IF bucket < m.capacity
    THEN [i \in 1..Len(m.buckets[bucket]) |->
             <<m.buckets[bucket][i].key, m.buckets[bucket][i].value>>]
         \o sc_keys_and_values_from(m, bucket + 1)
    ELSE <<>>

sc_get_keys_and_values(m) == sc_keys_and_values_from(m, 0)

RECURSIVE sc_put(_, _, _)
RECURSIVE sc_resize_table(_, _)
RECURSIVE sc_put_all(_, _, _)

\* put raises DynamicArrayException when the bucket index is out of bounds;
\* nothing has been written by then unless the resize ran.
sc_put_raises(m, key) ==
    LET m1 == IF sc_table_load_at_least_one(m)
              THEN sc_resize_table(m, _next_prime(m.capacity * 2))
              ELSE m
    IN  ~InBounds(m1.buckets, PyMod(m1.hash_function[key], m1.capacity))

sc_put(m, key, value) ==
    LET m1 == IF sc_table_load_at_least_one(m)
              THEN sc_resize_table(m, _next_prime(m.capacity * 2))
              ELSE m
        bucket == PyMod(m1.hash_function[key], m1.capacity)
    IN  IF ~InBounds(m1.buckets, bucket) THEN m1
        ELSE LET linked_list == m1.buckets[bucket]
                 node == ll_contains(linked_list, key)
             IN  IF node # 0
                 THEN [m1 EXCEPT !.buckets[bucket][node].value = value]
                 ELSE [m1 EXCEPT !.buckets[bucket] =
                                     ll_insert(linked_list, key, value),
                                 !.size = @ + 1]

sc_put_all(m, key_value_da, pair) ==
    IF pair <= Len(key_value_da)
    THEN sc_put_all(sc_put(m, key_value_da[pair][1], key_value_da[pair][2]),
                    key_value_da, pair + 1)
    ELSE m

sc_resize_table(m, new_capacity) ==
    IF new_capacity < 1 THEN m
    ELSE LET nc == IF ~_is_prime(new_capacity) THEN _next_prime(new_capacity)
                   ELSE new_capacity
             key_value_da == sc_get_keys_and_values(m)
             cleared == sc_clear(m)
             fresh == [cleared EXCEPT !.buckets = DynamicArray(nc, LinkedList),
                                      !.capacity = nc]
         IN  sc_put_all(fresh, key_value_da, 1)

sc_contains_key(m, key) ==
    IF m.size = 0 THEN FALSE
    ELSE ll_contains(m.buckets[PyMod(m.hash_function[key], m.capacity)], key) # 0

sc_get(m, key) ==
    IF ~sc_contains_key(m, key) THEN NotFound
    ELSE LET linked_list == m.buckets[PyMod(m.hash_function[key], m.capacity)]
         IN  linked_list[ll_contains(linked_list, key)].value

\* for bucket in range(capacity): remove key from every chain holding it.
RECURSIVE sc_remove_from(_, _, _)
sc_remove_from(m, key, bucket) ==
    IF bucket < m.capacity
    THEN IF ll_contains(m.buckets[bucket], key) # 0
         THEN sc_remove_from(
                  [m EXCEPT !.buckets[bucket] = ll_remove(@, key),
                            !.size = @ - 1], key, bucket + 1)
         ELSE sc_remove_from(m, key, bucket + 1)
    ELSE m

sc_remove(m, key) ==
    IF ~sc_contains_key(m, key) THEN m ELSE sc_remove_from(m, key, 0)

(***************************************************************************)
(* find_mode, the client of the chaining map.                              *)
(***************************************************************************)
\* HashMap(): the default capacity.
DefaultCapacity == 11

\* The counting loop storing 1 for every element, seen before or not.
RECURSIVE find_mode_count_ones(_, _, _)
find_mode_count_ones(map, da, i) ==
    IF i <= Len(da)
    THEN find_mode_count_ones(sc_put(map, da[i], 1), da, i + 1)
    ELSE map

\* for i in range(da.length()): count the occurrence of da[i] in the map.
RECURSIVE find_mode_count(_, _, _)
find_mode_count(map, da, i) ==
    IF i <= Len(da)
    THEN LET value == da[i]
         IN  IF sc_contains_key(map, value)
             THEN find_mode_count(sc_put(map, value, sc_get(map, value) + 1),
                                  da, i + 1)
             ELSE find_mode_count(sc_put(map, value, 1), da, i + 1)
    ELSE map

\* for pair in range(map_da.length()): frequency = max(frequency, value)
RECURSIVE find_mode_max(_, _, _)
find_mode_max(map_da, pair, frequency) ==
    IF pair <= Len(map_da)
    THEN find_mode_max(map_da, pair + 1,
                       IF map_da[pair][2] > frequency THEN map_da[pair][2]
                       ELSE frequency)
    ELSE frequency

\* for pair in range(map_da.length()): append the keys counted frequency times
RECURSIVE find_mode_collect(_, _, _, _)
find_mode_collect(map_da, pair, frequency, mode_da) ==
    IF pair <= Len(map_da)
    THEN find_mode_collect(map_da, pair + 1, frequency,
                           IF map_da[pair][2] = frequency
                           THEN Append(mode_da, map_da[pair][1])
                           ELSE mode_da)
    ELSE mode_da

\* find_mode(da), function being the module's hash_function_1; map is the
\* map it built.
find_mode(da, function) ==
    LET map == find_mode_count(sc_init(DefaultCapacity, function), da, 1)
        map_da == sc_get_keys_and_values(map)
        frequency == find_mode_max(map_da, 1, 0)
    IN  [mode_da |-> find_mode_collect(map_da, 1, frequency, <<>>),
         frequency |-> frequency, map |-> map]

(***************************************************************************)
(* The client: it constructs one map of one variant and calls its public   *)
(* operations one after another.  last is the call that returned last.     *)
(***************************************************************************)
NoMap == [capacity |-> 0]

Call(op, key, value, arg, raised) ==
    [op |-> op, key |-> key, value |-> value, arg |-> arg, raised |-> raised]

InitOa ==
    \E capacity \in InitCapacities, function \in HashFunctions :
        /\ variant = "oa"
        /\ oa = oa_init(capacity, function)
        /\ sc = NoMap
        /\ last = Call("init", 0, "", capacity, FALSE)

InitSc ==
    \E capacity \in InitCapacities, function \in HashFunctions :
        /\ variant = "sc"
        /\ oa = NoMap
        /\ sc = sc_init(capacity, function)
        /\ last = Call("init", 0, "", capacity, FALSE)

Init == InitOa \/ InitSc

OaPut(key, value) ==
    /\ variant = "oa"
    /\ oa' = oa_put(oa, key, value)
    /\ last' = Call("put", key, value, 0, FALSE)
    /\ UNCHANGED <<variant, sc>>

OaRemove(key) ==
    /\ variant = "oa"
    /\ oa' = oa_remove(oa, key)
    /\ last' = Call("remove", key, "", 0, FALSE)
    /\ UNCHANGED <<variant, sc>>

OaClear ==
    /\ variant = "oa"
    /\ oa' = oa_clear(oa)
    /\ last' = Call("clear", 0, "", 0, FALSE)
    /\ UNCHANGED <<variant, sc>>

OaResizeTable(new_capacity) ==
    /\ variant = "oa"
    /\ oa' = oa_resize_table(oa, new_capacity)
    /\ last' = Call("resize_table", 0, "", new_capacity, FALSE)
    /\ UNCHANGED <<variant, sc>>

OaGetKeysAndValues ==
    /\ variant = "oa"
    /\ oa' = oa_get_keys_and_values(oa).map
    /\ last' = Call("get_keys_and_values", 0, "", 0, FALSE)
    /\ UNCHANGED <<variant, sc>>

ScPut(key, value) ==
    /\ variant = "sc"
    /\ sc' = sc_put(sc, key, value)
    /\ last' = Call("put", key, value, 0, sc_put_raises(sc, key))
    /\ UNCHANGED <<variant, oa>>

ScRemove(key) ==
    /\ variant = "sc"
    /\ sc' = sc_remove(sc, key)
    /\ last' = Call("remove", key, "", 0, FALSE)
    /\ UNCHANGED <<variant, oa>>

ScClear ==
    /\ variant = "sc"
    /\ sc' = sc_clear(sc)
    /\ last' = Call("clear", 0, "", 0, FALSE)
    /\ UNCHANGED <<variant, oa>>

ScResizeTable(new_capacity) ==
    /\ variant = "sc"
    /\ sc' = sc_resize_table(sc, new_capacity)
    /\ last' = Call("resize_table", 0, "", new_capacity, FALSE)
    /\ UNCHANGED <<variant, oa>>

\* The model stops growing a table beyond MaxCapacity slots.
WithinBound(m) == m.capacity <= MaxCapacity

Next ==
    \/ \E key \in Keys, value \in Values :
          /\ variant = "oa"
          /\ OaPut(key, value)
          /\ WithinBound(oa')
    \/ \E key \in Keys : OaRemove(key)
    \/ OaClear
    \/ \E new_capacity \in ResizeArgs :
          /\ variant = "oa"
          /\ OaResizeTable(new_capacity)
          /\ WithinBound(oa')
    \/ OaGetKeysAndValues
    \/ \E key \in Keys, value \in Values :
          /\ variant = "sc"
          /\ ScPut(key, value)
          /\ WithinBound(sc')
    \/ \E key \in Keys : ScRemove(key)
    \/ ScClear
    \/ \E new_capacity \in ResizeArgs :
          /\ variant = "sc"
          /\ ScResizeTable(new_capacity)
          /\ WithinBound(sc')

Spec == Init /\ [][Next]_vars

(***************************************************************************)
(* A fresh open-addressing map of capacity 11 into which distinct keys are *)
(* put one after another.                                                  *)
(***************************************************************************)
InitFresh ==
    \E capacity \in {10, 11}, function \in HashFunctions :
        /\ variant = "oa"
        /\ oa = oa_init(capacity, function)
        /\ sc = NoMap
        /\ last = Call("init", 0, "", capacity, FALSE)

NextFresh ==
    \E key \in FreshKeys, value \in FreshValues :
        /\ ~oa_contains_key(oa, key)
        /\ OaPut(key, value)

SpecFresh == InitFresh /\ [][NextFresh]_vars

(***************************************************************************)
(* A client that holds a sequence da and calls find_mode(da): last.arg is  *)
(* da, last.value the returned tuple and sc the map find_mode built.       *)
(***************************************************************************)
InitMode ==
    \E da \in ModeInputs :
        /\ variant = "sc"
        /\ oa = NoMap
        /\ sc = NoMap
        /\ last = Call("da", 0, <<>>, da, FALSE)

FindMode(function) ==
    /\ last.op = "da"
    /\ sc' = find_mode(last.arg, function).map
    /\ last' = Call("find_mode", 0,
                    <<find_mode(last.arg, function).mode_da,
                      find_mode(last.arg, function).frequency>>,
                    last.arg, FALSE)
    /\ UNCHANGED <<variant, oa>>

NextMode == \E function \in HashFunctions : FindMode(function)

SpecMode == InitMode /\ [][NextMode]_vars

(***************************************************************************)
(* A client that fills an open-addressing map and then iterates over it:   *)
(* __iter__, then __next__ step by step, with get_keys_and_values() called *)
(* at any point in between.  last.arg counts the entries the iteration has *)
(* yielded since __iter__; last.raised is StopIteration.                   *)
(***************************************************************************)
Filling == last.op \in {"init", "put", "remove"}

Iterating == last.op \in {"iter", "next", "get_keys_and_values"}

IterPut(key, value) ==
    /\ Filling
    /\ OaPut(key, value)
    /\ WithinBound(oa')

IterRemove(key) ==
    /\ Filling
    /\ OaRemove(key)

OaIter ==
    /\ variant = "oa"
    /\ oa' = oa_iter(oa)
    /\ last' = Call("iter", 0, "", 0, FALSE)
    /\ UNCHANGED <<variant, sc>>

OaNext ==
    /\ variant = "oa"
    /\ Iterating
    /\ oa' = oa_next(oa).map
    /\ last' = Call("next", oa_next(oa).entry.key, oa_next(oa).entry.value,
                    IF oa_next(oa).stop THEN last.arg ELSE last.arg + 1,
                    oa_next(oa).stop)
    /\ UNCHANGED <<variant, sc>>

IterGetKeysAndValues ==
    /\ variant = "oa"
    /\ Iterating
    /\ oa' = oa_get_keys_and_values(oa).map
    /\ last' = Call("get_keys_and_values", 0, "", last.arg, FALSE)
    /\ UNCHANGED <<variant, sc>>

NextIter ==
    \/ \E key \in Keys, value \in Values : IterPut(key, value)
    \/ \E key \in Keys : IterRemove(key)
    \/ OaIter
    \/ OaNext
    \/ IterGetKeysAndValues

SpecIter == InitOa /\ [][NextIter]_vars

(***************************************************************************)
(* Vocabulary of the properties.                                           *)
(***************************************************************************)
IsPrimeNumber(n) == n > 1 /\ \A d \in 2..(n - 1) : n % d # 0

\* The smallest prime >= x (there is a prime between n and 2n).
SmallestPrimeAtLeast(x) ==
    LET lo == IF x < 2 THEN 2 ELSE x
    IN  CHOOSE p \in lo..(2 * lo) :
            IsPrimeNumber(p) /\ \A q \in lo..(p - 1) : ~IsPrimeNumber(q)

\* The slots of an open-addressing map that hold a live entry.
LiveSlots(m) ==
    {index \in DOMAIN m.buckets :
        ~m.buckets[index].is_none /\ ~m.buckets[index].is_tombstone}

TombstoneSlots(m) ==
    {index \in DOMAIN m.buckets :
        ~m.buckets[index].is_none /\ m.buckets[index].is_tombstone}

\* A sequence of pairs as a multiset: each pair with its number of copies.
PairBag(da) ==
    [pair \in {da[i] : i \in 1..Len(da)} |->
        Cardinality({i \in 1..Len(da) : da[i] = pair})]

(***************************************************************************)
(* Properties.                                                             *)
(***************************************************************************)

\* C1: open addressing, map constructed with a non-negative requested
\* capacity: such a map has a positive capacity, it keeps one whatever is
\* called, and immediately after put(k, v) returns on it get(k) returns v
\* and contains_key(k) returns true.
C1_PutThenGet ==
    /\ (variant = "oa" /\ last.op = "init" /\ last.arg >= 0
           => oa.capacity > 0)
    /\ [][(variant = "oa" /\ oa.capacity > 0)
             => /\ oa'.capacity > 0
                /\ last'.op = "put"
                      => /\ oa_get(oa', last'.key) = last'.value
                         /\ oa_contains_key(oa', last'.key)]_vars

\* A put that re-used a tombstoned slot of an earlier collision, and one that
\* grew the table first, have returned.
C1_Witness ==
    /\ variant = "oa"
    /\ last.op = "put"
    /\ oa.capacity = 7
    /\ TombstoneSlots(oa) # {}
    /\ oa.size >= 2
    /\ oa_get(oa, last.key) = last.value

\* C2: open addressing: when contains_key(k) is true before put(k, v), the
\* put overwrites the existing live entry (k is held by as many live slots as
\* before, get(k) is v) and get_size() is unchanged.
C2_PutExistingKeepsSize ==
    [][(variant = "oa" /\ last'.op = "put"
           /\ oa_contains_key(oa, last'.key))
          => /\ oa'.size = oa.size
             /\ oa_get(oa', last'.key) = last'.value
             /\ Cardinality({i \in LiveSlots(oa') :
                                oa'.buckets[i].key = last'.key})
                = Cardinality({i \in LiveSlots(oa) :
                                  oa.buckets[i].key = last'.key})]_vars

\* C3: open addressing: in every reachable state no two live slots hold the
\* same key, and get_size() is the number of distinct keys k for which
\* contains_key(k) is true.
C3_UniqueLiveKeys ==
    variant = "oa"
       => /\ \A i, j \in LiveSlots(oa) :
                oa.buckets[i].key = oa.buckets[j].key => i = j
          /\ oa_get_size(oa)
             = Cardinality({k \in Keys : oa_contains_key(oa, k)})

\* C4: open addressing: after remove(k) returns, contains_key(k) is false,
\* and get_size() has decreased by exactly 1 if contains_key(k) was true
\* before the call and is unchanged if it was false.
C4_RemoveThenAbsent ==
    [][(variant = "oa" /\ last'.op = "remove")
          => /\ ~oa_contains_key(oa', last'.key)
             /\ oa'.size = IF oa_contains_key(oa, last'.key)
                           THEN oa.size - 1 ELSE oa.size]_vars

\* C5: open addressing: the multiset of pairs get_keys_and_values() returns
\* and get_size() are the same immediately before and immediately after
\* resize_table(x), for every x.
C5_ResizeKeepsPairs ==
    [][(variant = "oa" /\ last'.op = "resize_table")
          => /\ PairBag(oa_get_keys_and_values(oa').da)
                = PairBag(oa_get_keys_and_values(oa).da)
             /\ oa'.size = oa.size]_vars

\* C6: open addressing: immediately after resize_table(x) with
\* x >= get_size() returns, get_capacity() is the smallest prime >= x.
C6_OaResizeCapacity ==
    [][(variant = "oa" /\ last'.op = "resize_table"
           /\ last'.arg >= oa.size)
          => oa'.capacity = SmallestPrimeAtLeast(last'.arg)]_vars

\* C7: chaining: immediately after resize_table(x) with x >= 1 returns,
\* get_capacity() is the smallest prime >= x, whatever the size.
C7_ScResizeCapacity ==
    [][(variant = "sc" /\ last'.op = "resize_table" /\ last'.arg >= 1)
          => sc'.capacity = SmallestPrimeAtLeast(last'.arg)]_vars

\* The capacity of the map the client constructed.
Capacity == IF variant = "oa" THEN oa_get_capacity(oa) ELSE sc_get_capacity(sc)

Buckets == IF variant = "oa" THEN oa.buckets ELSE sc.buckets

\* C8: both variants: the map constructed with requested capacity c has
\* capacity the smallest prime >= max(c, 2), for every integer c; it is
\* positive and prime, and c = 10 yields 11.
C8_ConstructedCapacity ==
    /\ last.op = "init"
          => /\ Capacity
                = SmallestPrimeAtLeast(IF last.arg > 2 THEN last.arg ELSE 2)
             /\ IsPrimeNumber(Capacity)
    /\ \A function \in HashFunctions :
          /\ oa_get_capacity(oa_init(10, function)) = 11
          /\ sc_get_capacity(sc_init(10, function)) = 11

\* The capacity is a prime and the bucket array has that many slots.
PrimeCapacity ==
    /\ IsPrimeNumber(Capacity)
    /\ length(Buckets) = Capacity

\* C9: both variants: a map constructed with a requested capacity >= 1 has a
\* prime capacity and as many slots, and put, remove, clear and
\* resize_table(x), for any integer x, keep it so.
C9_CapacityAlwaysPrime ==
    /\ (last.op = "init" /\ last.arg >= 1 => PrimeCapacity)
    /\ [][PrimeCapacity => PrimeCapacity']_vars

\* A chaining map that a put has grown from 2 to 5 buckets.
C9_Witness ==
    /\ variant = "sc"
    /\ last.op = "put"
    /\ sc.capacity = 5
    /\ sc.size = 2
    /\ PrimeCapacity

\* The number of distinct keys put so far into the fresh map.
DistinctPut == Cardinality({k \in FreshKeys : oa_contains_key(oa, k)})

\* C10 as stated: in a fresh map of capacity 11, the capacity is 11 after
\* the 5th put of a distinct key and 23 when the 6th returns.
C10_ResizeOnSixthPut ==
    /\ DistinctPut = 5 => oa_get_capacity(oa) = 11
    /\ DistinctPut = 6 => oa_get_capacity(oa) = 23

\* C10 amended: the resize to 23 happens during the 7th put: the capacity
\* is 11 up to and after the 6th put and 23 when the 7th put returns (and
\* stays 23 for the puts that follow, within the bound).
C10_ResizeOnSeventhPut ==
    /\ DistinctPut <= 6 => oa_get_capacity(oa) = 11
    /\ DistinctPut >= 7 => oa_get_capacity(oa) = 23

\* The 7th put has returned, and it has moved the six pairs and its own.
C10_Witness ==
    /\ last.op = "put"
    /\ DistinctPut = 7
    /\ oa_get_size(oa) = 7
    /\ oa_get_capacity(oa) = 23

\* The map as put's probe loop finds it: after the resize, when the load
\* factor called for one.
oa_put_resized(m) ==
    IF oa_table_load_at_least_half(m)
    THEN oa_resize_table(m, _next_prime(m.capacity * 2))
    ELSE m

sc_put_resized(m) ==
    IF sc_table_load_at_least_one(m)
    THEN sc_resize_table(m, _next_prime(m.capacity * 2))
    ELSE m

\* C11: both variants: whenever put writes a new entry, size / capacity just
\* before the write is below the threshold (0.5 open addressing, 1.0
\* chaining); and in every reachable state with size >= 1,
\* 2 * (size - 1) < capacity (open addressing), size <= capacity (chaining).
C11_LoadBelowThreshold ==
    /\ variant = "oa"
          => LET resized == oa_put_resized(oa)
             IN  /\ oa.size >= 1 => 2 * (oa.size - 1) < oa.capacity
                 /\ \A key \in Keys, value \in Values :
                       oa_put(oa, key, value).size > resized.size
                          => ~LoadAtLeast(resized.size, resized.capacity, 1, 2)
    /\ variant = "sc"
          => LET resized == sc_put_resized(sc)
             IN  /\ sc.size >= 1 => sc.size <= sc.capacity
                 /\ \A key \in Keys, value \in Values :
                       sc_put(sc, key, value).size > resized.size
                          => ~LoadAtLeast(resized.size, resized.capacity, 1, 1)

\* resize_table(2) has shrunk an open-addressing map that holds an entry: a
\* second entry would bring the load to 1/2.
C11_Witness ==
    /\ variant = "oa"
    /\ last.op = "resize_table"
    /\ oa.capacity = 2
    /\ oa.size = 1

ScPairs(m) ==
    {sc_get_keys_and_values(m)[i] : i \in 1..Len(sc_get_keys_and_values(m))}

\* The nodes of all chains, each as <<bucket, position>>.
ScNodes(m) ==
    UNION {{<<bucket, i>> : i \in 1..Len(m.buckets[bucket])} :
              bucket \in DOMAIN m.buckets}

\* The reference dictionary's operations, on its set of pairs.
RefRemove(ref, key) == {pair \in ref : pair[1] # key}

RefPut(ref, key, value) == RefRemove(ref, key) \cup {<<key, value>>}

\* C13: the chaining map refines a reference dictionary.  The reference
\* starts empty and is driven by the same calls; ScPairs maps the map's state
\* to the reference's, so the claim is that construction gives the empty
\* reference, that every call put/remove/clear/resize_table(x) made in a
\* reachable state raises nothing and commutes with ScPairs, and that in
\* every reachable state get, contains_key and get_size answer as the
\* reference does, get_keys_and_values() lists the reference's pairs once
\* each, every key sits only in bucket hash(k) mod capacity and at most once,
\* and the chain lengths sum to get_size().
C13_ScRefinesDictionary ==
    variant = "sc"
       => /\ last.op = "init" => ScPairs(sc) = {}
          /\ \A key \in Keys, value \in Values :
                /\ ~sc_put_raises(sc, key)
                /\ ScPairs(sc_put(sc, key, value))
                      = RefPut(ScPairs(sc), key, value)
          /\ \A key \in Keys :
                ScPairs(sc_remove(sc, key)) = RefRemove(ScPairs(sc), key)
          /\ ScPairs(sc_clear(sc)) = {}
          /\ \A new_capacity \in ResizeArgs :
                ScPairs(sc_resize_table(sc, new_capacity)) = ScPairs(sc)
          /\ \A key \in Keys :
                /\ Cardinality({pair \in ScPairs(sc) : pair[1] = key}) <= 1
                /\ sc_contains_key(sc, key)
                      <=> \E pair \in ScPairs(sc) : pair[1] = key
                /\ \A pair \in ScPairs(sc) :
                      pair[1] = key => sc_get(sc, key) = pair[2]
                /\ (\A pair \in ScPairs(sc) : pair[1] # key)
                      => sc_get(sc, key) = NotFound
          /\ sc_get_size(sc) = Cardinality(ScPairs(sc))
          /\ Len(sc_get_keys_and_values(sc)) = Cardinality(ScPairs(sc))
          /\ \A node \in ScNodes(sc) :
                LET key == sc.buckets[node[1]][node[2]].key
                IN  /\ node[1] = PyMod(sc.hash_function[key], sc.capacity)
                    /\ \A other \in ScNodes(sc) :
                          sc.buckets[other[1]][other[2]].key = key
                             => other = node
          /\ Cardinality(ScNodes(sc)) = sc_get_size(sc)

\* C14: a rejected resize_table is a silent no-op: open addressing
\* resize_table(x) with x < get_size(), chaining resize_table(x) with x < 1,
\* raises nothing and leaves capacity, size and every slot (tombstones
\* included) or chain as they were, hence every get and contains_key result.
C14_RejectedResizeIsNoOp ==
    /\ [](variant = "oa"
             => \A new_capacity \in (0 - 1)..(oa_get_size(oa) - 1) :
                   oa_resize_table(oa, new_capacity) = oa)
    /\ [](variant = "sc"
             => \A new_capacity \in (0 - 1)..0 :
                   sc_resize_table(sc, new_capacity) = sc)
    /\ [][/\ (variant = "oa" /\ last'.op = "resize_table"
                 /\ last'.arg < oa_get_size(oa))
                => ~last'.raised /\ oa' = oa
          /\ (variant = "sc" /\ last'.op = "resize_table" /\ last'.arg < 1)
                => ~last'.raised /\ sc' = sc]_vars

\* resize_table(1) has been rejected by an open-addressing map that holds
\* two entries and a tombstone.
C14_Witness ==
    /\ variant = "oa"
    /\ last.op = "resize_table"
    /\ last.arg = 1
    /\ oa.size = 2
    /\ TombstoneSlots(oa) # {}

\* The slots the probe sequence of key visits.
ProbedSlots(m, key) ==
    {PyMod(PyMod(m.hash_function[key], m.capacity) + probe * probe, m.capacity) :
        probe \in 0..(m.capacity - 1)}

\* No live slot holds key.
Absent(m, key) == \A index \in LiveSlots(m) : m.buckets[index].key # key

\* C15: open addressing, absent key: in every reachable state, for a key
\* held by no live slot (a key held only by a tombstoned slot included),
\* get returns None, contains_key returns false and remove leaves size,
\* capacity and every slot unchanged; the search reads at most capacity slots
\* before it stops (none at all in a table that has no slot), also when every
\* slot it probes is occupied or tombstoned.
C15_AbsentKey ==
    [](variant = "oa"
          => \A key \in Keys :
                Absent(oa, key)
                   => /\ oa_get(oa, key) = NotFound
                      /\ ~oa_contains_key(oa, key)
                      /\ oa_remove(oa, key) = oa
                      /\ oa_probes(oa, key,
                                   PyMod(oa.hash_function[key], oa.capacity),
                                   0)
                            = IF oa.capacity > 0 THEN oa.capacity ELSE 0)

\* remove has returned, its key is held by a tombstoned slot only, and every
\* slot on the key's probe sequence is occupied or tombstoned.
C15_Witness ==
    /\ variant = "oa"
    /\ last.op = "remove"
    /\ oa.capacity > 0
    /\ Absent(oa, last.key)
    /\ \E index \in TombstoneSlots(oa) : oa.buckets[index].key = last.key
    /\ \A index \in ProbedSlots(oa, last.key) : ~oa.buckets[index].is_none

\* C16: open-addressing iteration: in every reachable state, __iter__
\* followed by __next__ until exhaustion yields exactly the live entries,
\* each once, in strictly ascending slot order, never an empty or tombstoned
\* slot; exhaustion is signalled with the cursor at capacity (at 0 in a table
\* that has no slot) and the slots are left as they were; and
\* get_keys_and_values() returns the pairs of those entries in that order.
C16_IterationYieldsLiveEntries ==
    [](variant = "oa"
          => LET it == next_to_exhaustion(oa_iter(oa), <<>>)
                 kv == oa_get_keys_and_values(oa)
             IN  /\ {it.slots[i] : i \in 1..Len(it.slots)} = LiveSlots(oa)
                 /\ \A i, j \in 1..Len(it.slots) :
                       i < j => it.slots[i] < it.slots[j]
                 /\ it.map.index = IF oa.capacity > 0 THEN oa.capacity ELSE 0
                 /\ it.map = [oa EXCEPT !.index = it.map.index]
                 /\ kv.da = [i \in 1..Len(it.slots) |->
                               <<oa.buckets[it.slots[i]].key,
                                 oa.buckets[it.slots[i]].value>>]
                 /\ kv.map = it.map)

\* get_keys_and_values() has returned on a map whose first slot is a
\* tombstone, with a live entry after it.
C16_Witness ==
    /\ variant = "oa"
    /\ last.op = "get_keys_and_values"
    /\ 0 \in TombstoneSlots(oa)
    /\ LiveSlots(oa) # {}
    /\ oa.index = oa.capacity

\* The last slot of the table is a tombstone and a live entry precedes it.
C16_LastSlotTombstone ==
    /\ variant = "oa"
    /\ oa.capacity > 0
    /\ (oa.capacity - 1) \in TombstoneSlots(oa)
    /\ LiveSlots(oa) # {}

\* The number of occurrences of value in the sequence da.
Occurrences(da, value) == Cardinality({i \in 1..Len(da) : da[i] = value})

\* C17: find_mode: the returned frequency is the greatest number of
\* occurrences of a value in the input (0 for the empty input), and the
\* returned collection holds exactly the distinct values that occur that many
\* times, each once; <<1,2,2,3,3,3>> gives ({3}, 3), <<1,2,3>> gives
\* ({1,2,3}, 1) and the empty input gives (empty, 0).
C17_FindMode ==
    last.op = "find_mode"
       => LET da == last.arg
              mode_da == last.value[1]
              frequency == last.value[2]
              values == {da[i] : i \in 1..Len(da)}
              modes == {mode_da[i] : i \in 1..Len(mode_da)}
          IN  /\ \A value \in values : Occurrences(da, value) <= frequency
              /\ IF da = <<>> THEN frequency = 0
                 ELSE \E value \in values : Occurrences(da, value) = frequency
              /\ modes = {value \in values :
                             Occurrences(da, value) = frequency}
              /\ Len(mode_da) = Cardinality(modes)
              /\ da = <<1, 2, 2, 3, 3, 3>> => modes = {3} /\ frequency = 3
              /\ da = <<1, 2, 3>> => modes = {1, 2, 3} /\ frequency = 1
              /\ da = <<>> => mode_da = <<>> /\ frequency = 0

\* find_mode has returned ({3}, 3) for <<1,2,2,3,3,3>>, its map holding the
\* three values in one chain.
C17_Witness ==
    /\ last.op = "find_mode"
    /\ last.arg = <<1, 2, 2, 3, 3, 3>>
    /\ last.value = <<(<<3>>), 3>>
    /\ \E bucket \in DOMAIN sc.buckets : Len(sc.buckets[bucket]) = 3

\* C18: open-addressing put has no effect on other keys: in every reachable
\* state, for every key k, value v and key k' different from k, get(k') and
\* contains_key(k') return after put(k, v) what they returned before it,
\* also when the put resizes the table and rehashes every pair.
C18_PutLeavesOtherKeys ==
    variant = "oa"
       => \A key \in Keys, value \in Values :
          \A other \in Keys \ {key} :
             /\ oa_get(oa_put(oa, key, value), other) = oa_get(oa, other)
             /\ oa_contains_key(oa_put(oa, key, value), other)
                   <=> oa_contains_key(oa, other)

\* C19: open addressing: in every reachable state get_size() is the number
\* of live slots (tombstones are not counted), so 0 <= get_size() <=
\* get_capacity() and empty_buckets() = get_capacity() - get_size(); and the
\* slot a put has re-used is no longer a tombstone.
C19_SizeCountsLiveSlots ==
    /\ [](variant = "oa"
             => /\ oa_get_size(oa) = Cardinality(LiveSlots(oa))
                /\ 0 <= oa_get_size(oa)
                /\ oa_get_size(oa) <= oa_get_capacity(oa)
                /\ oa_empty_buckets(oa) = oa_get_capacity(oa) - oa_get_size(oa))
    /\ [][(variant = "oa" /\ last'.op = "put"
               /\ oa'.capacity = oa.capacity)
             => \A index \in TombstoneSlots(oa) :
                   oa'.buckets[index] # oa.buckets[index]
                      => /\ index \in LiveSlots(oa')
                         /\ oa'.buckets[index].key = last'.key
                         /\ oa'.size = oa.size + 1]_vars

\* The table in the middle of resize_table(new_capacity), new_capacity a
\* prime: the fresh table with the first n pairs re-inserted.
oa_rehashed(m, new_capacity, n) ==
    LET kv == oa_get_keys_and_values(m)
        cleared == oa_clear(kv.map)
        fresh == [cleared EXCEPT !.buckets = DynamicArray(new_capacity, None),
                                 !.capacity = new_capacity]
    IN  oa_put_all(fresh, SubSeq(kv.da, 1, n), 1)

sc_rehashed(m, new_capacity, n) ==
    LET cleared == sc_clear(m)
        fresh == [cleared EXCEPT
                     !.buckets = DynamicArray(new_capacity, LinkedList),
                     !.capacity = new_capacity]
    IN  sc_put_all(fresh, SubSeq(sc_get_keys_and_values(m), 1, n), 1)

\* C20: both variants: every put made in a reachable state returns having
\* called resize_table at most once: none when the load is below the
\* threshold (the capacity is unchanged), one when it is not (the capacity
\* is next_prime(2 * capacity) afterwards, which a further resize would have
\* exceeded); and each re-inserting put of that resize finds the load under
\* the new capacity below the threshold (0.5 open addressing, 1.0 chaining).
C20_PutResizesAtMostOnce ==
    /\ [](variant = "oa"
             => LET grown == _next_prime(oa.capacity * 2)
                IN  IF oa_table_load_at_least_half(oa)
                    THEN /\ \A key \in Keys, value \in Values :
                               oa_put(oa, key, value).capacity = grown
                         /\ \A n \in 0..(oa.size - 1) :
                               ~LoadAtLeast(oa_rehashed(oa, grown, n).size,
                                            grown, 1, 2)
                    ELSE \A key \in Keys, value \in Values :
                            oa_put(oa, key, value).capacity = oa.capacity)
    /\ [](variant = "sc"
             => LET grown == _next_prime(sc.capacity * 2)
                IN  IF sc_table_load_at_least_one(sc)
                    THEN /\ \A key \in Keys, value \in Values :
                               sc_put(sc, key, value).capacity = grown
                         /\ \A n \in 0..(sc.size - 1) :
                               ~LoadAtLeast(sc_rehashed(sc, grown, n).size,
                                            grown, 1, 1)
                    ELSE \A key \in Keys, value \in Values :
                            sc_put(sc, key, value).capacity = sc.capacity)

\* A put has returned on an open-addressing table of capacity 7 holding two
\* entries: a capacity the client's own resize_table calls do not reach, so
\* a put grew the table from capacity 3 and re-inserted its pairs.
C20_Witness ==
    /\ variant = "oa"
    /\ last.op = "put"
    /\ oa.capacity = 7
    /\ oa.size = 2
    /\ MaxResize < 7

\* C21: the open-addressing iteration shares one cursor, stored on the map:
\* get_keys_and_values() called between two __next__ steps of an iteration
\* in progress leaves the cursor at capacity, so the next __next__ of that
\* iteration signals exhaustion, as does every later one, and the live
\* entries it had not yielded by then are never yielded.
C21_SharedCursor ==
    /\ [][(last.op = "next" /\ ~last.raised
             /\ last'.op = "get_keys_and_values")
             => /\ oa'.index = oa_get_capacity(oa')
                /\ oa' = [oa EXCEPT !.index = oa_get_capacity(oa)]]_vars
    /\ [][(last.op = "get_keys_and_values" /\ last'.op = "next")
             => /\ last'.raised
                /\ last'.arg = last.arg
                /\ oa' = oa]_vars
    /\ [][(last.op = "next" /\ last.raised /\ last'.op = "next")
             => /\ last'.raised
                /\ last'.arg = last.arg]_vars

\* __next__ has signalled exhaustion after yielding one entry, and the map
\* holds a live entry the iteration never yielded.
C21_Witness ==
    /\ variant = "oa"
    /\ last.op = "next"
    /\ last.raised
    /\ last.arg = 1
    /\ Cardinality(LiveSlots(oa)) > 1

====
